---- MODULE Spec2Model ----
(***************************************************************************)
(* Memory Retrieval & Mutation Engine (backend/memory_api.py).             *)
(*                                                                         *)
(* The record store (table memory_items) is the only shared state.  Every  *)
(* request is a handler run in a slot; a handler advances by one step per  *)
(* collaborator call (store call, embeddings call, rpc), so that the       *)
(* requests in flight interleave at the granularity of store operations.   *)
(***************************************************************************)
EXTENDS Integers, Sequences, FiniteSets, TLC

VARIABLES store, next_id, req

vars == <<store, next_id, req>>

(***************************************************************************)
(* Bounds of the model.                                                    *)
(***************************************************************************)
\* number of rows the store assigns an id to in one behaviour
MaxItems == 2
\* longest list of ids a bulk delete is given, the over-long list apart
MaxBatch == 2
\* page numbers 1..MaxPage and page sizes 1..MaxPageSize that are requested
MaxPage == 2
MaxPageSize == 2
\* longest list of tags given to the tag validator
MaxTags == 3

(***************************************************************************)
(* Program constants.                                                      *)
(***************************************************************************)
BulkDeleteLimit == 100
\* Field(..., max_length=10000) of text, Field(..., max_items=20) of tags
TextMaxLength == 10000
TagsMaxItems == 20
\* Field(..., min_items=1536, max_items=1536) of embedding
EmbeddingDim == 1536

HTTP_200_OK == 200
HTTP_201_CREATED == 201
HTTP_204_NO_CONTENT == 204
HTTP_400_BAD_REQUEST == 400
HTTP_403_FORBIDDEN == 403
HTTP_404_NOT_FOUND == 404
HTTP_422_UNPROCESSABLE_ENTITY == 422
HTTP_500_INTERNAL_SERVER_ERROR == 500

(***************************************************************************)
(* Values.                                                                 *)
(***************************************************************************)
Users == {"u1", "u2"}
\* Python None of an optional uuid (project_id) / SQL NULL of the column
NULL == "NULL"
Projects == {"p1"}
\* Python None of an optional string argument (search, update_data.text)
NoneStr == <<"None">>
\* strings are sequences of characters
Texts == {<<"a">>, <<"b">>}
\* Python None of an optional list argument (update_data.tags)
NoneTags == <<NoneStr>>
\* tags as clients write them: upper case, padded, blank
TagStrings == {<<"A">>, <<" ", "a">>, <<"a", " ">>, <<" ">>, <<"b">>}
\* the lists of tags given to the tag validator
TagArgs == UNION {[1..n -> TagStrings] : n \in 0..MaxTags}

\* Python None of an optional list of floats (update_data.embedding), and the
\* embedding column of a row that was inserted without one
NoneEmbedding == [len |-> 0, of |-> "None"]
\* a list of floats, by the number of its entries and a name for the entries:
\* the engine reads the number and passes the entries on unread
Vector(n, name) == [len |-> n, of |-> name]
\* embeddings as clients post them: of the dimension of the model (two of
\* them), of the dimension of the test (100), one entry over, and empty
PostedEmbeddings ==
    {Vector(EmbeddingDim, "e1"), Vector(EmbeddingDim, "e2"),
     Vector(100, "e1"), Vector(EmbeddingDim + 1, "e1"), Vector(0, "e1")}

\* Python None of the optional metadata object
NoneMeta == [none |-> TRUE]
\* the metadata key of a body that does not have the key
AbsentMeta == [absent |-> TRUE]
\* the empty dict {}
EmptyDict == [k \in {} |-> NULL]
\* MemoryMetadata(): the declared fields with their defaults
MemoryMetadata_defaults ==
    [source |-> NULL, type |-> "note", importance |-> 1, language |-> NULL,
     framework |-> NULL]
\* metadata objects as clients post them: empty, a declared field, a field
\* that is not declared (extra = "allow"), a source, and an importance out
\* of range
PostedMetadata ==
    {EmptyDict, [type |-> "code"], [origin |-> "web"],
     [source |-> "chat", origin |-> "cli"], [importance |-> 6]}

\* texts as clients post them: empty, blank, padded, plain, over the length
PostedTexts ==
    {<<>>, <<" ">>, <<" ", "a">>, <<"b">>,
     [i \in 1..(TextMaxLength + 1) |-> "a"]}
\* lists of tags as clients post them: none, two spellings of one tag, one
\* list over the limit
PostedTags ==
    {<<>>, << <<"A">>, <<" ", "a">> >>,
     [i \in 1..(TagsMaxItems + 1) |-> <<"a">>]}

\* bodies of a create: as the request model returns them, and as posted
ValidCreates ==
    [user_id : Users, project_id : {NULL} \cup Projects, text : Texts,
     embedding : {Vector(EmbeddingDim, "e1")}, metadata : {AbsentMeta},
     tags : {<<>>}]
PostedCreates ==
    [user_id : Users, project_id : {NULL}, text : PostedTexts,
     embedding : {Vector(EmbeddingDim, "e1")}, metadata : {AbsentMeta},
     tags : PostedTags]
\* bodies of a create that differ from one body in the embedding (one of
\* them has none), in the metadata or in the tags
FieldCreates ==
    LET body == [user_id |-> "u1", project_id |-> NULL, text |-> <<"a">>,
                 embedding |-> Vector(EmbeddingDim, "e1"),
                 metadata |-> AbsentMeta, tags |-> <<>>]
    IN  {[body EXCEPT !.embedding = e] :
            e \in {NoneEmbedding} \cup PostedEmbeddings}
            \cup {[body EXCEPT !.metadata = m] :
                      m \in {NoneMeta} \cup PostedMetadata}
            \cup {[body EXCEPT !.tags = t] : t \in PostedTags}

\* bodies of an update: as the request model returns them, and as posted
ValidUpdates ==
    [text : {NoneStr} \cup Texts, embedding : {NoneEmbedding},
     metadata : {NoneMeta}, tags : {NoneTags}]
PostedUpdates ==
    [text : {NoneStr} \cup PostedTexts, embedding : {NoneEmbedding},
     metadata : {NoneMeta}, tags : {NoneTags} \cup PostedTags]
\* bodies of an update: every subset of the four fields supplied, and the
\* bodies that supply one field, with each value a client posts for it
FieldUpdates ==
    LET body == [text |-> NoneStr, embedding |-> NoneEmbedding,
                 metadata |-> NoneMeta, tags |-> NoneTags]
    IN  [text : {NoneStr, <<"b">>},
         embedding : {NoneEmbedding, Vector(EmbeddingDim, "e2")},
         metadata : {NoneMeta, [type |-> "code"]},
         tags : {NoneTags, <<<<"b">>>>}]
            \cup {[body EXCEPT !.embedding = e] : e \in PostedEmbeddings}
            \cup {[body EXCEPT !.metadata = m] : m \in PostedMetadata}
            \cup {[body EXCEPT !.tags = t] : t \in PostedTags}
\* ids: 1..MaxItems are well-formed uuids, 0 is a string that is no uuid
IdArgs == 0..MaxItems
\* the absence of a row (response.data is None / empty)
NoRow == [id |-> 0, user_id |-> NULL, project_id |-> NULL, text |-> <<>>,
          embedding |-> NoneEmbedding, metadata |-> EmptyDict,
          tags |-> <<>>, created_at |-> 0]

Modes == {"vector", "text", "hybrid"}
\* the search argument: absent, whitespace only, a word to be stripped
Searches == {NoneStr, <<" ">>, <<" ", "a">>}
\* the search arguments that carry no query: absent, empty, whitespace only
BlankSearches == {NoneStr, <<>>, <<" ">>, <<" ", " ">>}

\* outcome of one collaborator call: it answers or it raises
Outcomes == {"ok", "error"}

(***************************************************************************)
(* Pure helpers.                                                           *)
(***************************************************************************)
\* uuid.UUID(v) succeeds
UuidParses(v) == v >= 1

RECURSIVE LStrip(_)
LStrip(s) == IF s # <<>> /\ Head(s) = " " THEN LStrip(Tail(s)) ELSE s

RECURSIVE RStrip(_)
RStrip(s) ==
    IF s # <<>> /\ s[Len(s)] = " " THEN RStrip(SubSeq(s, 1, Len(s) - 1)) ELSE s

\* str.strip()
Strip(s) == RStrip(LStrip(s))

Min(a, b) == IF a <= b THEN a ELSE b

\* the members of a list
Range(s) == {s[i] : i \in 1..Len(s)}

\* str.lower()
Lower(s) == [i \in 1..Len(s) |-> IF s[i] = "A" THEN "a" ELSE s[i]]

\* Python slice s[a:b], 0-based, b exclusive
Slice(s, a, b) == SubSeq(s, a + 1, Min(b, Len(s)))

\* the lexical match of the store: the query occurs in the text
TextSearch(text, query) ==
    \E k \in 0..(Len(text) - Len(query)) :
        SubSeq(text, k + 1, k + Len(query)) = query

\* the sequences that list the members of S once each
Perms(S) ==
    {f \in [1..Cardinality(S) -> S] :
        \A a, b \in 1..Cardinality(S) : f[a] = f[b] => a = b}

\* [tag.strip().lower() for tag in v if tag.strip()]
RECURSIVE cleaned_tags(_)
cleaned_tags(v) ==
    IF v = <<>> THEN <<>>
    ELSE (IF Strip(Head(v)) # <<>> THEN <<Lower(Strip(Head(v)))>> ELSE <<>>)
            \o cleaned_tags(Tail(v))

\* validate_tags without the conversion to lower case
validate_tags_keeps_case(v) ==
    LET kept == SelectSeq(v, LAMBDA tag : Strip(tag) # <<>>)
    IN  Perms({Strip(kept[i]) : i \in 1..Len(kept)})

\* validate_tags: list(set(cleaned_tags)), a list of the distinct cleaned
\* tags in the order the set iterates, which the language leaves open
validate_tags(v) == Perms(Range(cleaned_tags(v)))

\* the lists of ids given to bulk delete, one of them over the limit
BatchArgs ==
    UNION {[1..n -> IdArgs] : n \in 0..MaxBatch}
        \cup {[i \in 1..(BulkDeleteLimit + 1) |-> 1]}

\* the rows of the table, as a set of ids
Rows == {i \in 1..MaxItems : store[i] # NoRow}

\* one row of memory_items as the store returns it
Row(id, user_id, project_id, text, embedding, metadata, tags) ==
    [id |-> id, user_id |-> user_id, project_id |-> project_id, text |-> text,
     embedding |-> embedding, metadata |-> metadata, tags |-> tags,
     created_at |-> id]

\* MemoryMetadata_dict giving the keys that were set only
MemoryMetadata_dict_exclude_unset(m) == m

\* MemoryItemResponse(...): the fields of the response model; similarity is
\* None (NULL) unless the constructor is given one
MemoryItemResponse(item, similarity) ==
    [id |-> item.id, user_id |-> item.user_id,
     project_id |-> item.project_id, text |-> item.text,
     metadata |-> item.metadata, tags |-> item.tags,
     similarity |-> similarity, created_at |-> item.created_at]

\* item_response with a score of zero where the row has none
item_response_default_score(item) == MemoryItemResponse(item, "0.0")

\* the response item that the scan, get, create and update build from a row:
\* the constructor is called without similarity
item_response(item) == MemoryItemResponse(item, NULL)

\* the response item of the similarity path: similarity=item.get("similarity")
search_item_response(item) ==
    MemoryItemResponse(item, IF "similarity" \in DOMAIN item
                             THEN item.similarity ELSE NULL)

\* the loop that builds the response items of the rows of a scan
item_responses(s) ==
    IF s = <<>> THEN <<>> ELSE [k \in 1..Len(s) |-> item_response(s[k])]

\* the loop that builds the response items of the rows of the similarity path
search_item_responses(s) ==
    IF s = <<>> THEN <<>>
    ELSE [k \in 1..Len(s) |-> search_item_response(s[k])]

\* the dict() of the metadata object built from m: the declared fields, with
\* their defaults where m does not give them, and every other key of m
MemoryMetadata_dict(m) ==
    [k \in DOMAIN MemoryMetadata_defaults \cup DOMAIN m |->
        IF k \in DOMAIN m THEN m[k] ELSE MemoryMetadata_defaults[k]]

\* Field(1, ge=1, le=5) of importance
MemoryMetadata_valid(m) ==
    "importance" \in DOMAIN m => (m.importance >= 1 /\ m.importance <= 5)

(***************************************************************************)
(* A request slot: the inputs of the handler, its position, its locals and *)
(* its response.  caller is the identity resolved from the credential,     *)
(* user_id the one the request claims; raw_text and raw_tags are the text  *)
(* and tags of the body as posted, text and tags what the request model    *)
(* made of them; emb and metadata are the embedding and the metadata       *)
(* object of the request model.  History of the run, which no handler      *)
(* reads: written, the columns of the payload given to insert or update;   *)
(* before, the row as it was when the update reached the store;            *)
(* raised, the store call of the handler that raised; aggregation, the     *)
(* outcome of the statistics rpc.                                          *)
(* stats is the MemoryStatsResponse of a statistics request.               *)
(* handler reads: log, the sequence of collaborator calls made; mode, the  *)
(* search_type as requested; embedding, similarity and scan, the outcome   *)
(* of each of these calls; unowned, the members of a batch that were not   *)
(* rows of the caller when they were looked up; failed_first, the member   *)
(* of the batch whose lookup was the first to complete with the answer     *)
(* False; deleted, the rows removed.                                       *)
(* seen is what the ownership lookup of an update or a delete found.       *)
(* denied is the id that the detail of a forbidden bulk delete names,      *)
(* detail the detail text of the error of a get, an update or a delete.    *)
(***************************************************************************)
Slots == {"r1", "r2"}

Idle ==
    [op |-> "idle", pc |-> "idle", caller |-> NULL, user_id |-> NULL,
     project_id |-> NULL, memory_id |-> 0, memory_ids |-> <<>>,
     text |-> NoneStr, search |-> NoneStr, page |-> 1, page_size |-> 1,
     tags |-> <<>>, raw_text |-> NoneStr, raw_tags |-> <<>>,
     emb |-> NoneEmbedding, metadata |-> NoneMeta, written |-> {},
     before |-> NoRow, stats |-> [none |-> TRUE],
     raised |-> "", aggregation |-> "none",
     mode |-> "text", search_type |-> "text", lexical |-> FALSE,
     embedding |-> "none", similarity |-> "none", scan |-> "none",
     ownership_checks |-> <<>>, pending |-> {}, unowned |-> {},
     failed_first |-> 0, denied |-> 0, seen |-> "none", detail |-> "",
     status |-> 0, items |-> <<>>, total_count |-> 0, has_next |-> FALSE,
     echo_page |-> 0, echo_page_size |-> 0,
     deleted |-> {}, deleted_count |-> 0, requested_count |-> 0,
     log |-> <<>>]

\* the handler of slot r raises HTTPException(status) or returns with status
Finish(q, code) == [q EXCEPT !.pc = "done", !.status = code]

Call(q, name) == [q EXCEPT !.log = Append(@, name)]

\* a store call of the handler that answers or raises
CallOut(q, name, out) ==
    [Call(q, name) EXCEPT !.raised = IF out = "error" THEN name ELSE @]

\* raise HTTPException(status_code=code, detail=detail)
Raise(q, code, detail) == Finish([q EXCEPT !.detail = detail], code)

(***************************************************************************)
(* verify_memory_ownership: one select of the owner column by id.  Any     *)
(* exception of the call is caught and answered False.                     *)
(***************************************************************************)
\* verify_memory_ownership answering True for any row that exists
verify_memory_ownership_any_owner(memory_id, user_id, out) ==
    IF out = "error" THEN FALSE ELSE store[memory_id] # NoRow

verify_memory_ownership(memory_id, user_id, out) ==
    IF out = "error" THEN FALSE
    ELSE LET data == store[memory_id]
         IN  IF data = NoRow THEN FALSE ELSE data.user_id = user_id

\* what the select of the owner column finds for the caller of request q
Lookup(q, out) ==
    IF out = "error" THEN "error"
    ELSE IF store[q.memory_id] = NoRow THEN "absent"
    ELSE IF store[q.memory_id].user_id = q.caller THEN "own"
    ELSE "other"

\* ownership_denied answering not-found when no row has the id
ownership_denied_reveals_absence(q) ==
    IF store[q.memory_id] = NoRow
    THEN Raise(q, HTTP_404_NOT_FOUND, "Memory item not found")
    ELSE Raise(q, HTTP_403_FORBIDDEN,
               "Access denied: memory item not found or access denied")

\* the error of an update or a delete whose ownership check answered False
ownership_denied(q) ==
    Raise(q, HTTP_403_FORBIDDEN,
          "Access denied: memory item not found or access denied")

(***************************************************************************)
(* The self-access check of list, create and statistics: the user_id the   *)
(* request claims against the identity resolved from the credential.       *)
(***************************************************************************)
\* access_denied with the check left out
access_denied_never(current_user, user_id) == FALSE

access_denied(current_user, user_id) == current_user # user_id

(***************************************************************************)
(* create_memory_item                                                      *)
(***************************************************************************)
\* creates that passed the authorization check and have not inserted yet
PendingInserts ==
    Cardinality({r \in Slots : req[r].pc \in {"insert", "save"}})

\* embedding_valid without max_items
embedding_valid_min_only(v) == v.len >= EmbeddingDim

\* Field(..., min_items=1536, max_items=1536) of embedding
embedding_valid(v) == v.len >= EmbeddingDim /\ v.len <= EmbeddingDim

\* tags_valid counting the tags that the validator keeps
tags_valid_after_cleaning(v) ==
    Cardinality(Range(cleaned_tags(v))) <= TagsMaxItems

\* Field(..., max_items=20) of tags: checked on the list as posted, before
\* the validator of the class is given the list
tags_valid(v) == Len(v) <= TagsMaxItems

\* the constraints of the fields of CreateMemoryRequest and validate_text
CreateMemoryRequest_valid(body) ==
    /\ Len(body.text) >= 1 /\ Len(body.text) <= TextMaxLength
    /\ Strip(body.text) # <<>>
    /\ embedding_valid(body.embedding)
    /\ body.metadata \notin {AbsentMeta, NoneMeta} =>
          MemoryMetadata_valid(body.metadata)
    /\ tags_valid(body.tags)

\* the metadata of the request model of a create: MemoryMetadata() by
\* default_factory when the body has no metadata, else what the body has
CreateMemoryRequest_metadata(m) == IF m = AbsentMeta THEN EmptyDict ELSE m

\* CreateMemoryRequest.validate_text, for a text that is not blank
validate_text(v) == Strip(v)

\* the request model is built from the body, then the handler is entered
create_memory_item_call(r, bodies) ==
    /\ req[r].pc = "idle"
    /\ next_id + PendingInserts <= MaxItems
    /\ \E caller \in Users, body \in bodies :
          LET p == [Idle EXCEPT !.op = "create", !.caller = caller,
                                !.user_id = body.user_id,
                                !.project_id = body.project_id,
                                !.raw_text = body.text,
                                !.raw_tags = body.tags,
                                !.emb = body.embedding]
          IN  IF ~CreateMemoryRequest_valid(body)
              THEN req' = [req EXCEPT ![r] =
                             Finish(p, HTTP_422_UNPROCESSABLE_ENTITY)]
              ELSE \E tags \in validate_tags(body.tags) :
                     LET q == [p EXCEPT !.text = validate_text(body.text),
                                        !.metadata =
                                           CreateMemoryRequest_metadata(
                                               body.metadata),
                                        !.tags = tags]
                     IN  req' = [req EXCEPT ![r] =
                                   IF access_denied(caller, q.user_id)
                                   THEN Finish(q, HTTP_403_FORBIDDEN)
                                   ELSE [q EXCEPT !.pc = "insert"]]
    /\ UNCHANGED <<store, next_id>>

\* a create with a body that is already in the form the model returns
create_memory_item_begin(r) == create_memory_item_call(r, ValidCreates)

\* a create with a body as a client posts it
create_memory_item_post(r) == create_memory_item_call(r, PostedCreates)

\* a create with a body that differs in embedding, metadata and tags
create_memory_item_fields(r) == create_memory_item_call(r, FieldCreates)

\* the keys of the dict memory_item
memory_item_keys ==
    {"user_id", "project_id", "text", "embedding", "metadata", "tags"}

\* create_memory_item_insert that issues the insert again when it raised
create_memory_item_insert_retries(r) ==
    /\ req[r].pc = "insert"
    /\ \E out \in Outcomes :
          LET q == [CallOut(req[r], "insert", out) EXCEPT
                        !.written = memory_item_keys]
              created_item ==
                  Row(next_id, q.user_id, q.project_id, q.text, q.emb,
                      IF q.metadata # NoneMeta
                      THEN MemoryMetadata_dict(q.metadata) ELSE EmptyDict,
                      q.tags)
          IN  IF out = "error"
              THEN /\ req' = [req EXCEPT ![r] =
                                IF Len(req[r].log) = 0 THEN q
                                ELSE Finish(q, HTTP_500_INTERNAL_SERVER_ERROR)]
                   /\ UNCHANGED <<store, next_id>>
              ELSE /\ store' = [store EXCEPT ![next_id] = created_item]
                   /\ next_id' = next_id + 1
                   /\ req' = [req EXCEPT ![r] =
                                Finish([q EXCEPT !.items =
                                           <<item_response(created_item)>>],
                                       HTTP_201_CREATED)]

create_memory_item_insert(r) ==
    /\ req[r].pc = "insert"
    /\ \E out \in Outcomes :
          LET q == [CallOut(req[r], "insert", out) EXCEPT
                        !.written = memory_item_keys]
              created_item ==
                  Row(next_id, q.user_id, q.project_id, q.text, q.emb,
                      IF q.metadata # NoneMeta
                      THEN MemoryMetadata_dict(q.metadata) ELSE EmptyDict,
                      q.tags)
          IN  IF out = "error"
              THEN /\ req' = [req EXCEPT ![r] =
                                Finish(q, HTTP_500_INTERNAL_SERVER_ERROR)]
                   /\ UNCHANGED <<store, next_id>>
              ELSE /\ store' = [store EXCEPT ![next_id] = created_item]
                   /\ next_id' = next_id + 1
                   /\ req' = [req EXCEPT ![r] =
                                Finish([q EXCEPT !.items =
                                           <<item_response(created_item)>>],
                                       HTTP_201_CREATED)]

(***************************************************************************)
(* save_memory (main.py): the second handler that inserts into the table   *)
(* memory_items; its request model MemoryItem has no validator.            *)
(***************************************************************************)
\* the constraints of the fields of MemoryItem
MemoryItem_valid(body) ==
    Len(body.text) >= 1 /\ Len(body.text) <= TextMaxLength

save_memory_begin(r) ==
    /\ req[r].pc = "idle"
    /\ next_id + PendingInserts <= MaxItems
    /\ \E caller \in Users, body \in PostedCreates :
          LET q == [Idle EXCEPT !.op = "save", !.caller = caller,
                                !.user_id = body.user_id,
                                !.project_id = body.project_id,
                                !.raw_text = body.text,
                                !.raw_tags = body.tags,
                                !.text = body.text, !.tags = body.tags,
                                !.metadata = EmptyDict]
          IN  req' = [req EXCEPT ![r] =
                        IF ~MemoryItem_valid(body)
                        THEN Finish([q EXCEPT !.text = NoneStr,
                                              !.tags = <<>>],
                                    HTTP_422_UNPROCESSABLE_ENTITY)
                        ELSE IF access_denied(caller, q.user_id)
                        THEN Finish(q, HTTP_403_FORBIDDEN)
                        ELSE [q EXCEPT !.pc = "save"]]
    /\ UNCHANGED <<store, next_id>>

save_memory_insert(r) ==
    /\ req[r].pc = "save"
    /\ \E out \in Outcomes :
          LET q == [CallOut(req[r], "insert", out) EXCEPT
                        !.written = memory_item_keys \ {"embedding"}]
              saved == Row(next_id, q.user_id, q.project_id, q.text,
                           NoneEmbedding, q.metadata, q.tags)
          IN  IF out = "error"
              THEN /\ req' = [req EXCEPT ![r] =
                                Finish(q, HTTP_500_INTERNAL_SERVER_ERROR)]
                   /\ UNCHANGED <<store, next_id>>
              ELSE /\ store' = [store EXCEPT ![next_id] = saved]
                   /\ next_id' = next_id + 1
                   /\ req' = [req EXCEPT ![r] =
                                Finish([q EXCEPT !.items = <<saved>>],
                                       HTTP_200_OK)]

(***************************************************************************)
(* get_memory_item                                                         *)
(***************************************************************************)
get_memory_item_begin(r) ==
    /\ req[r].pc = "idle"
    /\ \E caller \in Users, memory_id \in IdArgs :
          LET q == [Idle EXCEPT !.op = "get", !.caller = caller,
                                !.memory_id = memory_id]
          IN  req' = [req EXCEPT ![r] =
                        IF ~UuidParses(memory_id)
                        THEN Raise(q, HTTP_400_BAD_REQUEST,
                                   "Invalid memory ID format")
                        ELSE [q EXCEPT !.pc = "select"]]
    /\ UNCHANGED <<store, next_id>>

\* get_memory_item_select without the comparison of the owner with the caller
get_memory_item_select_no_owner_check(r) ==
    /\ req[r].pc = "select"
    /\ \E out \in Outcomes :
          LET q == CallOut(req[r], "select", out)
              memory_item == store[q.memory_id]
          IN  req' = [req EXCEPT ![r] =
                IF out = "error"
                THEN Raise(q, HTTP_500_INTERNAL_SERVER_ERROR,
                           "Failed to retrieve memory item")
                ELSE IF memory_item = NoRow
                THEN Raise(q, HTTP_404_NOT_FOUND, "Memory item not found")
                ELSE Finish([q EXCEPT !.items =
                                        <<item_response(memory_item)>>],
                            HTTP_200_OK)]
    /\ UNCHANGED <<store, next_id>>

get_memory_item_select(r) ==
    /\ req[r].pc = "select"
    /\ \E out \in Outcomes :
          LET q == CallOut(req[r], "select", out)
              memory_item == store[q.memory_id]
          IN  req' = [req EXCEPT ![r] =
                IF out = "error"
                THEN Raise(q, HTTP_500_INTERNAL_SERVER_ERROR,
                           "Failed to retrieve memory item")
                ELSE IF memory_item = NoRow
                THEN Raise(q, HTTP_404_NOT_FOUND, "Memory item not found")
                ELSE IF memory_item.user_id # q.caller
                THEN Raise(q, HTTP_403_FORBIDDEN,
                     "Access denied: memory item belongs to another user")
                ELSE Finish([q EXCEPT !.items =
                                        <<item_response(memory_item)>>],
                            HTTP_200_OK)]
    /\ UNCHANGED <<store, next_id>>

(***************************************************************************)
(* update_memory_item                                                      *)
(***************************************************************************)
\* the keys of update_fields: the fields of update_data that are not None
update_fields(q) ==
    (IF q.text # NoneStr THEN {"text"} ELSE {})
        \cup (IF q.emb # NoneEmbedding THEN {"embedding"} ELSE {})
        \cup (IF q.metadata # NoneMeta THEN {"metadata"} ELSE {})
        \cup (IF q.tags # NoneTags THEN {"tags"} ELSE {})

\* the constraints of the fields of UpdateMemoryRequest
UpdateMemoryRequest_valid(body) ==
    /\ body.text # NoneStr =>
          Len(body.text) >= 1 /\ Len(body.text) <= TextMaxLength
    /\ body.embedding # NoneEmbedding => embedding_valid(body.embedding)
    /\ body.metadata # NoneMeta => MemoryMetadata_valid(body.metadata)
    /\ body.tags # NoneTags => tags_valid(body.tags)

\* the request model is built from the body, then the handler is entered
update_memory_item_call(r, bodies) ==
    /\ req[r].pc = "idle"
    /\ \E caller \in Users, memory_id \in IdArgs, body \in bodies :
          LET p == [Idle EXCEPT !.op = "update", !.caller = caller,
                                !.memory_id = memory_id,
                                !.raw_text = body.text,
                                !.raw_tags = body.tags,
                                !.emb = body.embedding,
                                !.tags = NoneTags]
          IN  IF ~UpdateMemoryRequest_valid(body)
              THEN req' = [req EXCEPT ![r] =
                             Finish(p, HTTP_422_UNPROCESSABLE_ENTITY)]
              ELSE \E tags \in (IF body.tags = NoneTags THEN {NoneTags}
                                 ELSE validate_tags(body.tags)) :
                     LET q == [p EXCEPT !.text = body.text,
                                        !.metadata = body.metadata,
                                        !.tags = tags]
                     IN  req' = [req EXCEPT ![r] =
                                   IF ~UuidParses(memory_id)
                                   THEN Raise(q, HTTP_400_BAD_REQUEST,
                                              "Invalid memory ID format")
                                   ELSE [q EXCEPT !.pc = "verify"]]
    /\ UNCHANGED <<store, next_id>>

\* an update with a body that is already in the form the model returns
update_memory_item_begin(r) == update_memory_item_call(r, ValidUpdates)

\* an update with a body as a client posts it
update_memory_item_put(r) == update_memory_item_call(r, PostedUpdates)

\* an update with a body that supplies any subset of the four fields
update_memory_item_fields(r) == update_memory_item_call(r, FieldUpdates)

update_memory_item_verify(r) ==
    /\ req[r].pc = "verify"
    /\ req[r].op = "update"
    /\ \E out \in Outcomes :
          LET q == [Call(req[r], "select_owner") EXCEPT
                        !.seen = Lookup(req[r], out)]
          IN  req' = [req EXCEPT ![r] =
                IF ~verify_memory_ownership(q.memory_id, q.caller, out)
                THEN ownership_denied(q)
                ELSE IF update_fields(q) = {}
                THEN Raise(q, HTTP_400_BAD_REQUEST,
                           "No valid fields provided for update")
                ELSE [q EXCEPT !.pc = "update"]]
    /\ UNCHANGED <<store, next_id>>

\* update_memory_item_update writing the row anew when the id has none
update_memory_item_update_upsert(r) ==
    /\ req[r].pc = "update"
    /\ \E out \in Outcomes :
          LET q == CallOut(req[r], "update", out)
              old == IF store[q.memory_id] = NoRow
                     THEN Row(q.memory_id, q.caller, NULL, q.text,
                              NoneEmbedding, EmptyDict, <<>>)
                     ELSE store[q.memory_id]
              updated_item == [old EXCEPT !.text = q.text]
          IN  IF out = "error"
              THEN /\ req' = [req EXCEPT ![r] =
                                Raise(q, HTTP_500_INTERNAL_SERVER_ERROR,
                                      "Failed to update memory item")]
                   /\ UNCHANGED store
              ELSE /\ store' = [store EXCEPT ![q.memory_id] = updated_item]
                   /\ req' = [req EXCEPT ![r] =
                                Finish([q EXCEPT !.items =
                                           <<item_response(updated_item)>>],
                                       HTTP_200_OK)]
    /\ UNCHANGED next_id

\* update_memory_item_update writing all four fields of update_data, the
\* ones that are None with them
update_memory_item_update_all_fields(r) ==
    /\ req[r].pc = "update"
    /\ \E out \in Outcomes :
          LET q == [CallOut(req[r], "update", out) EXCEPT
                        !.written = update_fields(req[r]),
                        !.before = store[req[r].memory_id]]
              old == store[q.memory_id]
              updated_item ==
                  [old EXCEPT
                     !.text = q.text,
                     !.embedding = q.emb,
                     !.metadata = IF q.metadata # NoneMeta
                                  THEN MemoryMetadata_dict(q.metadata)
                                  ELSE EmptyDict,
                     !.tags = IF q.tags # NoneTags THEN q.tags ELSE <<>>]
          IN  IF out = "error"
              THEN /\ req' = [req EXCEPT ![r] =
                                Raise(q, HTTP_500_INTERNAL_SERVER_ERROR,
                                      "Failed to update memory item")]
                   /\ UNCHANGED store
              ELSE IF old = NoRow
              THEN /\ req' = [req EXCEPT ![r] =
                                Raise(q, HTTP_404_NOT_FOUND,
                                      "Memory item not found")]
                   /\ UNCHANGED store
              ELSE /\ store' = [store EXCEPT ![q.memory_id] = updated_item]
                   /\ req' = [req EXCEPT ![r] =
                                Finish([q EXCEPT !.items =
                                           <<item_response(updated_item)>>],
                                       HTTP_200_OK)]
    /\ UNCHANGED next_id

update_memory_item_update(r) ==
    /\ req[r].pc = "update"
    /\ \E out \in Outcomes :
          LET q == [CallOut(req[r], "update", out) EXCEPT
                        !.written = update_fields(req[r]),
                        !.before = store[req[r].memory_id]]
              old == store[q.memory_id]
              updated_item ==
                  [old EXCEPT
                     !.text = IF "text" \in update_fields(q)
                              THEN q.text ELSE @,
                     !.embedding = IF "embedding" \in update_fields(q)
                                   THEN q.emb ELSE @,
                     !.metadata = IF "metadata" \in update_fields(q)
                                  THEN MemoryMetadata_dict(q.metadata) ELSE @,
                     !.tags = IF "tags" \in update_fields(q)
                              THEN q.tags ELSE @]
          IN  IF out = "error"
              THEN /\ req' = [req EXCEPT ![r] =
                                Raise(q, HTTP_500_INTERNAL_SERVER_ERROR,
                                      "Failed to update memory item")]
                   /\ UNCHANGED store
              ELSE IF old = NoRow
              THEN /\ req' = [req EXCEPT ![r] =
                                Raise(q, HTTP_404_NOT_FOUND,
                                      "Memory item not found")]
                   /\ UNCHANGED store
              ELSE /\ store' = [store EXCEPT ![q.memory_id] = updated_item]
                   /\ req' = [req EXCEPT ![r] =
                                Finish([q EXCEPT !.items =
                                           <<item_response(updated_item)>>],
                                       HTTP_200_OK)]
    /\ UNCHANGED next_id

(***************************************************************************)
(* delete_memory_item                                                      *)
(***************************************************************************)
delete_memory_item_begin(r) ==
    /\ req[r].pc = "idle"
    /\ \E caller \in Users, memory_id \in IdArgs :
          LET q == [Idle EXCEPT !.op = "delete", !.caller = caller,
                                !.memory_id = memory_id]
          IN  req' = [req EXCEPT ![r] =
                        IF ~UuidParses(memory_id)
                        THEN Raise(q, HTTP_400_BAD_REQUEST,
                                   "Invalid memory ID format")
                        ELSE [q EXCEPT !.pc = "verify"]]
    /\ UNCHANGED <<store, next_id>>

delete_memory_item_verify(r) ==
    /\ req[r].pc = "verify"
    /\ req[r].op = "delete"
    /\ \E out \in Outcomes :
          LET q == [Call(req[r], "select_owner") EXCEPT
                        !.seen = Lookup(req[r], out)]
          IN  req' = [req EXCEPT ![r] =
                IF ~verify_memory_ownership(q.memory_id, q.caller, out)
                THEN ownership_denied(q)
                ELSE [q EXCEPT !.pc = "delete"]]
    /\ UNCHANGED <<store, next_id>>

\* delete_memory_item_delete that does not look at the rows the delete removed
delete_memory_item_delete_unchecked(r) ==
    /\ req[r].pc = "delete"
    /\ \E out \in Outcomes :
          LET q == CallOut(req[r], "delete", out)
              data == store[q.memory_id]
          IN  IF out = "error"
              THEN /\ req' = [req EXCEPT ![r] =
                                Raise(q, HTTP_500_INTERNAL_SERVER_ERROR,
                                      "Failed to delete memory item")]
                   /\ UNCHANGED store
              ELSE /\ store' = [store EXCEPT ![q.memory_id] = NoRow]
                   /\ req' = [req EXCEPT ![r] =
                        Finish([q EXCEPT !.deleted =
                                    IF data = NoRow THEN {} ELSE {q.memory_id},
                                         !.deleted_count = 1],
                               HTTP_204_NO_CONTENT)]
    /\ UNCHANGED next_id

delete_memory_item_delete(r) ==
    /\ req[r].pc = "delete"
    /\ \E out \in Outcomes :
          LET q == CallOut(req[r], "delete", out)
              data == store[q.memory_id]
          IN  IF out = "error"
              THEN /\ req' = [req EXCEPT ![r] =
                                Raise(q, HTTP_500_INTERNAL_SERVER_ERROR,
                                      "Failed to delete memory item")]
                   /\ UNCHANGED store
              ELSE /\ store' = [store EXCEPT ![q.memory_id] = NoRow]
                   /\ req' = [req EXCEPT ![r] =
                        IF data = NoRow
                        THEN Raise(q, HTTP_404_NOT_FOUND,
                                   "Memory item not found")
                        ELSE Finish([q EXCEPT !.deleted = {q.memory_id},
                                              !.deleted_count = 1],
                                    HTTP_204_NO_CONTENT)]
    /\ UNCHANGED next_id

(***************************************************************************)
(* bulk_delete_memories                                                    *)
(***************************************************************************)
\* invalid_batch without the check of the length against the limit
invalid_batch_no_limit(memory_ids) ==
    \/ memory_ids = <<>>
    \/ \E i \in 1..Len(memory_ids) : ~UuidParses(memory_ids[i])

\* the three validations of the list, each of which raises 400
invalid_batch(memory_ids) ==
    \/ memory_ids = <<>>
    \/ Len(memory_ids) > BulkDeleteLimit
    \/ \E i \in 1..Len(memory_ids) : ~UuidParses(memory_ids[i])

bulk_delete_memories_begin(r) ==
    /\ req[r].pc = "idle"
    /\ \E caller \in Users, memory_ids \in BatchArgs :
          LET q == [Idle EXCEPT !.op = "bulk_delete", !.caller = caller,
                                !.memory_ids = memory_ids]
          IN  req' = [req EXCEPT ![r] =
                IF invalid_batch(memory_ids)
                THEN Finish(q, HTTP_400_BAD_REQUEST)
                ELSE [q EXCEPT !.pc = "gather",
                               !.pending = 1..Len(memory_ids),
                               !.ownership_checks =
                                    [i \in 1..Len(memory_ids) |-> FALSE]]]
    /\ UNCHANGED <<store, next_id>>

\* one of the gathered verify_memory_ownership tasks completes; unowned
\* records what the store held for that member when it was looked up
bulk_delete_memories_check(r) ==
    /\ req[r].pc = "gather"
    /\ \E i \in req[r].pending, out \in Outcomes :
          LET q == Call(req[r], "select_owner")
              id == q.memory_ids[i]
              check == verify_memory_ownership(id, q.caller, out)
              fails == \/ out = "error"
                       \/ store[id] = NoRow
                       \/ store[id].user_id # q.caller
          IN  req' = [req EXCEPT ![r] =
                [q EXCEPT !.pending = @ \ {i},
                          !.failed_first = IF @ = 0 /\ ~check THEN i ELSE @,
                          !.ownership_checks[i] = check,
                          !.unowned = IF fails THEN @ \cup {i} ELSE @]]
    /\ UNCHANGED <<store, next_id>>

\* bulk_delete_memories_admit with a loop that looks at the first check only
bulk_delete_memories_admit_first_only(r) ==
    /\ req[r].pc = "gather"
    /\ req[r].pending = {}
    /\ LET q == req[r]
       IN  req' = [req EXCEPT ![r] =
             IF ~q.ownership_checks[1]
             THEN Finish(q, HTTP_403_FORBIDDEN)
             ELSE [q EXCEPT !.pc = "delete_in"]]
    /\ UNCHANGED <<store, next_id>>

\* offending naming the member whose failed lookup completed first
offending_by_completion(q) == q.failed_first

\* the index at which the loop over enumerate(ownership_checks) raises
offending(q) ==
    CHOOSE i \in 1..Len(q.memory_ids) :
        /\ ~q.ownership_checks[i]
        /\ \A j \in 1..(i - 1) : q.ownership_checks[j]

\* the gather has joined: the loop over ownership_checks
bulk_delete_memories_admit(r) ==
    /\ req[r].pc = "gather"
    /\ req[r].pending = {}
    /\ LET q == req[r]
       IN  req' = [req EXCEPT ![r] =
             IF \E i \in 1..Len(q.memory_ids) : ~q.ownership_checks[i]
             THEN Finish([q EXCEPT !.denied = q.memory_ids[offending(q)]],
                         HTTP_403_FORBIDDEN)
             ELSE [q EXCEPT !.pc = "delete_in"]]
    /\ UNCHANGED <<store, next_id>>

\* bulk_delete_memories_delete failing when fewer rows than requested went
bulk_delete_memories_delete_strict(r) ==
    /\ req[r].pc = "delete_in"
    /\ \E out \in Outcomes :
          LET q == CallOut(req[r], "delete_in", out)
              data == {q.memory_ids[i] : i \in 1..Len(q.memory_ids)} \cap Rows
          IN  IF out = "error"
              THEN /\ req' = [req EXCEPT ![r] =
                                Finish(q, HTTP_500_INTERNAL_SERVER_ERROR)]
                   /\ UNCHANGED store
              ELSE /\ store' = [i \in 1..MaxItems |->
                                  IF i \in data THEN NoRow ELSE store[i]]
                   /\ req' = [req EXCEPT ![r] =
                        IF Cardinality(data) < Len(q.memory_ids)
                        THEN Finish([q EXCEPT !.deleted = data],
                                    HTTP_500_INTERNAL_SERVER_ERROR)
                        ELSE Finish([q EXCEPT
                                       !.deleted = data,
                                       !.deleted_count = Cardinality(data),
                                       !.requested_count = Len(q.memory_ids)],
                                    HTTP_200_OK)]
    /\ UNCHANGED next_id

\* bulk_delete_memories_delete counting a row once for every member of the
\* list that names it
bulk_delete_memories_delete_counts_members(r) ==
    /\ req[r].pc = "delete_in"
    /\ \E out \in Outcomes :
          LET q == CallOut(req[r], "delete_in", out)
              data == {q.memory_ids[i] : i \in 1..Len(q.memory_ids)} \cap Rows
          IN  IF out = "error"
              THEN /\ req' = [req EXCEPT ![r] =
                                Finish(q, HTTP_500_INTERNAL_SERVER_ERROR)]
                   /\ UNCHANGED store
              ELSE /\ store' = [i \in 1..MaxItems |->
                                  IF i \in data THEN NoRow ELSE store[i]]
                   /\ req' = [req EXCEPT ![r] =
                        Finish([q EXCEPT !.deleted = data,
                                         !.deleted_count =
                                            Cardinality(
                                              {i \in 1..Len(q.memory_ids) :
                                                 q.memory_ids[i] \in data}),
                                         !.requested_count = Len(q.memory_ids)],
                               HTTP_200_OK)]
    /\ UNCHANGED next_id

bulk_delete_memories_delete(r) ==
    /\ req[r].pc = "delete_in"
    /\ \E out \in Outcomes :
          LET q == CallOut(req[r], "delete_in", out)
              data == {q.memory_ids[i] : i \in 1..Len(q.memory_ids)} \cap Rows
          IN  IF out = "error"
              THEN /\ req' = [req EXCEPT ![r] =
                                Finish(q, HTTP_500_INTERNAL_SERVER_ERROR)]
                   /\ UNCHANGED store
              ELSE /\ store' = [i \in 1..MaxItems |->
                                  IF i \in data THEN NoRow ELSE store[i]]
                   /\ req' = [req EXCEPT ![r] =
                        Finish([q EXCEPT !.deleted = data,
                                         !.deleted_count = Cardinality(data),
                                         !.requested_count = Len(q.memory_ids)],
                               HTTP_200_OK)]
    /\ UNCHANGED next_id

\* bulk_delete_memories_cancel that lets the batch delete go out
bulk_delete_memories_cancel_late(r) ==
    /\ req[r].pc = "gather"
    /\ LET q == Call(req[r], "delete_in")
           data == {q.memory_ids[i] : i \in 1..Len(q.memory_ids)} \cap Rows
       IN  /\ store' = [i \in 1..MaxItems |->
                          IF i \in data THEN NoRow ELSE store[i]]
           /\ req' = [req EXCEPT ![r] =
                        [q EXCEPT !.pc = "cancelled", !.deleted = data]]
    /\ UNCHANGED next_id

\* the request is cancelled while it awaits the gather: CancelledError is
\* raised at the await and the lookups still in flight, which pending goes
\* on to list, are cancelled with it
bulk_delete_memories_cancel(r) ==
    /\ req[r].pc = "gather"
    /\ req' = [req EXCEPT ![r] = [req[r] EXCEPT !.pc = "cancelled"]]
    /\ UNCHANGED <<store, next_id>>

(***************************************************************************)
(* get_memory_items: list / search                                         *)
(***************************************************************************)
Offset(q) == (q.page - 1) * q.page_size

\* search.strip(), taken only when search is given
search_query(q) == Strip(q.search)

\* Matching without the eq("user_id", user_id) filter
Matching_no_owner_filter(q) ==
    {i \in Rows :
        /\ (q.project_id # NULL => store[i].project_id = q.project_id)
        /\ (q.lexical => TextSearch(store[i].text, search_query(q)))}

\* the base query with its filters, executed: the ids of the matching rows
Matching(q) ==
    {i \in Rows :
        /\ store[i].user_id = q.user_id
        /\ (q.project_id # NULL => store[i].project_id = q.project_id)
        /\ (q.lexical => TextSearch(store[i].text, search_query(q)))}

\* order("created_at", desc=True)
RECURSIVE OrderByCreatedDesc(_)
OrderByCreatedDesc(S) ==
    IF S = {} THEN <<>>
    ELSE LET m == CHOOSE i \in S :
                    \A j \in S : store[j].created_at <= store[i].created_at
         IN  <<store[m]>> \o OrderByCreatedDesc(S \ {m})

\* a row of the result of search_memories: the row with its similarity
WithSimilarity(row, score) ==
    [k \in DOMAIN row \cup {"similarity"} |->
        IF k = "similarity" THEN score ELSE row[k]]

\* rpc search_memories: rows over the threshold that pass the owner and
\* project filters, at most match_count of them, in the store's order
search_memories(match_count, filter_user_id, filter_project_id) ==
    LET passing == {i \in Rows :
                      /\ store[i].user_id = filter_user_id
                      /\ (filter_project_id # NULL =>
                            store[i].project_id = filter_project_id)}
    IN  UNION {Perms({WithSimilarity(store[i], "0.9") : i \in S}) :
                 S \in {T \in SUBSET passing : Cardinality(T) <= match_count}}

\* line 283: the lexical match is added to the query, then the scan follows
FallThrough(q) ==
    [q EXCEPT !.lexical = (q.search_type \in {"text", "hybrid"}),
              !.pc = "scan"]

\* Downgrade that lets the exception reach the outer handler (500)
Downgrade_reraises(q) == Finish(q, HTTP_500_INTERNAL_SERVER_ERROR)

\* Downgrade that logs the failure and leaves search_type as requested
Downgrade_keeps_type(q) == FallThrough(q)

\* the except branch around the embedding and similarity calls
Downgrade(q) == FallThrough([q EXCEPT !.search_type = "text"])

\* has_next with >= for >
has_next_inclusive(total_count, offset, page_size) ==
    total_count >= offset + page_size

has_next(total_count, offset, page_size) == total_count > offset + page_size

\* the MemorySearchResponse of a request
SearchResponse(q, items, total_count) ==
    Finish([q EXCEPT !.items = items,
                     !.total_count = total_count,
                     !.echo_page = q.page,
                     !.echo_page_size = q.page_size,
                     !.has_next = has_next(total_count, Offset(q),
                                           q.page_size)],
           HTTP_200_OK)

\* the request as the handler receives its arguments
ListRequest(caller, user_id, project_id, search, page, page_size, search_type) ==
    [Idle EXCEPT !.op = "list", !.caller = caller, !.user_id = user_id,
                 !.project_id = project_id, !.search = search,
                 !.page = page, !.page_size = page_size,
                 !.mode = search_type, !.search_type = search_type]

\* Dispatch that takes a search of blanks for a query
Dispatch_blank_is_query(q) ==
    IF access_denied(q.caller, q.user_id)
    THEN Finish(q, HTTP_403_FORBIDDEN)
    ELSE IF q.search # NoneStr /\ q.search # <<>>
    THEN IF q.search_type \in {"vector", "hybrid"}
         THEN [q EXCEPT !.pc = "embed"]
         ELSE FallThrough(q)
    ELSE [q EXCEPT !.pc = "scan"]

\* from the authorization check to the first collaborator call
Dispatch(q) ==
    IF access_denied(q.caller, q.user_id)
    THEN Finish(q, HTTP_403_FORBIDDEN)
    ELSE IF q.search # NoneStr /\ Strip(q.search) # <<>>
    THEN IF q.search_type \in {"vector", "hybrid"}
         THEN [q EXCEPT !.pc = "embed"]
         ELSE FallThrough(q)
    ELSE [q EXCEPT !.pc = "scan"]

\* order, range and execute of the query, with count="exact"
Scan(q, out) ==
    LET p == [CallOut(q, "scan", out) EXCEPT !.scan = out]
        rows == OrderByCreatedDesc(Matching(p))
    IN  IF out = "error"
        THEN Finish(p, HTTP_500_INTERNAL_SERVER_ERROR)
        ELSE SearchResponse(p,
                 item_responses(
                     Slice(rows, Offset(p), Offset(p) + p.page_size)),
                 Len(rows))

\* the handler is entered with its arguments
get_memory_items_call(r, searches) ==
    /\ req[r].pc = "idle"
    /\ \E caller \in Users, user_id \in Users,
          project_id \in {NULL} \cup Projects, search \in searches,
          page \in 1..MaxPage, page_size \in 1..MaxPageSize,
          search_type \in Modes :
          req' = [req EXCEPT ![r] =
                    Dispatch(ListRequest(caller, user_id, project_id, search,
                                         page, page_size, search_type))]
    /\ UNCHANGED <<store, next_id>>

get_memory_items_begin(r) == get_memory_items_call(r, Searches)

\* a list request with or without a query string
get_memory_items_any(r) ==
    get_memory_items_call(r, BlankSearches \cup Searches)

\* functions.invoke("embeddings"): a vector, a response without data, or
\* an exception
get_memory_items_embed(r) ==
    /\ req[r].pc = "embed"
    /\ \E out \in {"data", "nodata", "error"} :
          LET q == [Call(req[r], "embeddings") EXCEPT !.embedding = out]
          IN  req' = [req EXCEPT ![r] =
                IF out = "error" THEN Downgrade(q)
                ELSE IF out = "nodata" THEN FallThrough(q)
                ELSE [q EXCEPT !.pc = "rpc"]]
    /\ UNCHANGED <<store, next_id>>

\* match_count asking for the rows up to the end of the page
match_count_through_page(q) == Offset(q) + q.page_size

\* "match_count": page_size
match_count(q) == q.page_size

\* rpc("search_memories"): an exception, or the rows it matched; an empty
\* result falls through to the scan
get_memory_items_rpc(r) ==
    /\ req[r].pc = "rpc"
    /\ LET q == Call(req[r], "search_memories")
       IN  \/ req' = [req EXCEPT ![r] =
                        Downgrade([q EXCEPT !.similarity = "error"])]
           \/ \E data \in search_memories(match_count(q), q.user_id,
                                          q.project_id) :
                req' = [req EXCEPT ![r] =
                  IF data # <<>>
                  THEN SearchResponse(
                         [q EXCEPT !.similarity = "data"],
                         search_item_responses(
                             Slice(data, Offset(q), Offset(q) + q.page_size)),
                         Len(data))
                  ELSE FallThrough([q EXCEPT !.similarity = "nodata"])]
    /\ UNCHANGED <<store, next_id>>

get_memory_items_scan(r) ==
    /\ req[r].pc = "scan"
    /\ \E out \in Outcomes : req' = [req EXCEPT ![r] = Scan(req[r], out)]
    /\ UNCHANGED <<store, next_id>>

(***************************************************************************)
(* get_memory_statistics                                                   *)
(***************************************************************************)
get_memory_statistics_begin(r) ==
    /\ req[r].pc = "idle"
    /\ \E caller \in Users, user_id \in Users,
          project_id \in {NULL} \cup Projects :
          LET q == [Idle EXCEPT !.op = "stats", !.caller = caller,
                                !.user_id = user_id,
                                !.project_id = project_id]
          IN  req' = [req EXCEPT ![r] =
                        IF access_denied(caller, user_id)
                        THEN Finish(q, HTTP_403_FORBIDDEN)
                        ELSE [q EXCEPT !.pc = "stats"]]
    /\ UNCHANGED <<store, next_id>>

\* no MemoryStatsResponse: the request has not returned one
NoStats == [none |-> TRUE]

\* the result of the rpc get_memory_stats for the rows that pass its filters
get_memory_stats(filter_user_id, filter_project_id) ==
    LET rows == {i \in Rows :
                   /\ store[i].user_id = filter_user_id
                   /\ (filter_project_id # NULL =>
                         store[i].project_id = filter_project_id)}
        types == {store[i].metadata.type :
                    i \in {j \in rows : "type" \in DOMAIN store[j].metadata}}
        projects == {store[i].project_id : i \in rows}
    IN  [total_memories |-> Cardinality(rows),
         memories_by_type |->
            [t \in types |->
               Cardinality({i \in rows :
                              /\ "type" \in DOMAIN store[i].metadata
                              /\ store[i].metadata.type = t})],
         memories_by_project |->
            [p \in projects |->
               Cardinality({i \in rows : store[i].project_id = p})],
         recent_activity |-> <<>>,
         storage_usage |-> [total_items |-> Cardinality(rows)]]

\* d.get(key, default)
Get(d, key, default) == IF key \in DOMAIN d THEN d[key] ELSE default

\* empty_stats answering null
empty_stats_null == NoStats

\* the MemoryStatsResponse returned when the rpc has no data
empty_stats ==
    [total_memories |-> 0, memories_by_type |-> EmptyDict,
     memories_by_project |-> EmptyDict, recent_activity |-> <<>>,
     storage_usage |-> [total_items |-> 0, total_text_length |-> 0]]

\* the MemoryStatsResponse built from the data of the rpc
stats_response(stats_data) ==
    [total_memories |-> Get(stats_data, "total_memories", 0),
     memories_by_type |-> Get(stats_data, "memories_by_type", EmptyDict),
     memories_by_project |->
        Get(stats_data, "memories_by_project", EmptyDict),
     recent_activity |-> Get(stats_data, "recent_activity", <<>>),
     storage_usage |-> Get(stats_data, "storage_usage", EmptyDict)]

\* rpc get_memory_stats: statistics, no data, or an exception
get_memory_statistics_rpc(r) ==
    /\ req[r].pc = "stats"
    /\ \E out \in {"data", "nodata", "error"} :
          LET q == [CallOut(req[r], "get_memory_stats", out) EXCEPT
                        !.aggregation = out]
              stats_data == get_memory_stats(q.user_id, q.project_id)
          IN  req' = [req EXCEPT ![r] =
                IF out = "error"
                THEN Finish(q, HTTP_500_INTERNAL_SERVER_ERROR)
                ELSE IF out = "nodata"
                THEN Finish([q EXCEPT !.total_count = 0,
                                      !.stats = empty_stats], HTTP_200_OK)
                ELSE Finish([q EXCEPT !.total_count =
                                         Cardinality(Matching(q)),
                                      !.stats = stats_response(stats_data)],
                            HTTP_200_OK)]
    /\ UNCHANGED <<store, next_id>>

(***************************************************************************)
(* The response leaves the engine and the slot is free again.              *)
(***************************************************************************)
Respond(r) ==
    /\ req[r].pc \in {"done", "cancelled"}
    /\ req' = [req EXCEPT ![r] = Idle]
    /\ UNCHANGED <<store, next_id>>

Init ==
    /\ store = [i \in 1..MaxItems |-> NoRow]
    /\ next_id = 1
    /\ req = [r \in Slots |-> Idle]

\* every step of every handler, for the request in slot r
Engine(r) ==
    \/ create_memory_item_begin(r)
    \/ create_memory_item_insert(r)
    \/ get_memory_item_begin(r)
    \/ get_memory_item_select(r)
    \/ update_memory_item_begin(r)
    \/ update_memory_item_verify(r)
    \/ update_memory_item_update(r)
    \/ delete_memory_item_begin(r)
    \/ delete_memory_item_verify(r)
    \/ delete_memory_item_delete(r)
    \/ bulk_delete_memories_begin(r)
    \/ bulk_delete_memories_check(r)
    \/ bulk_delete_memories_admit(r)
    \/ bulk_delete_memories_delete(r)
    \/ bulk_delete_memories_cancel(r)
    \/ get_memory_items_begin(r)
    \/ get_memory_items_embed(r)
    \/ get_memory_items_rpc(r)
    \/ get_memory_items_scan(r)
    \/ get_memory_statistics_begin(r)
    \/ get_memory_statistics_rpc(r)
    \/ Respond(r)

\* the steps of the handlers that write to the store
Writers(r) ==
    \/ create_memory_item_begin(r)
    \/ create_memory_item_insert(r)
    \/ bulk_delete_memories_begin(r)
    \/ bulk_delete_memories_check(r)
    \/ bulk_delete_memories_admit(r)
    \/ bulk_delete_memories_delete(r)
    \/ bulk_delete_memories_cancel(r)

\* the steps of the single-item writers that verify ownership first
SingleWriters(r) ==
    \/ update_memory_item_begin(r)
    \/ update_memory_item_verify(r)
    \/ update_memory_item_update(r)
    \/ delete_memory_item_begin(r)
    \/ delete_memory_item_verify(r)
    \/ delete_memory_item_delete(r)
    \/ Respond(r)

(***************************************************************************)
(* Spec: the engine serving every operation, one request after the other.  *)
(***************************************************************************)
Next == Engine("r1")

Spec == Init /\ [][Next]_vars

(***************************************************************************)
(* SpecRace: two requests in flight, interleaved store call by store call: *)
(* any writing operation in slot r1 against an update or a delete in r2.   *)
(***************************************************************************)
NextRace ==
    \/ Writers("r1")
    \/ \E r \in Slots : SingleWriters(r)

SpecRace == Init /\ [][NextRace]_vars

(***************************************************************************)
(* SpecDeleteRace: a create, an update or a delete in slot r1 against a    *)
(* delete in slot r2, interleaved store call by store call.                *)
(***************************************************************************)
\* the steps of delete_memory_item
Deletes(r) ==
    \/ delete_memory_item_begin(r)
    \/ delete_memory_item_verify(r)
    \/ delete_memory_item_delete(r)
    \/ Respond(r)

NextDeleteRace ==
    \/ create_memory_item_begin("r1")
    \/ create_memory_item_insert("r1")
    \/ SingleWriters("r1")
    \/ Deletes("r2")

SpecDeleteRace == Init /\ [][NextDeleteRace]_vars

(***************************************************************************)
(* SpecBulkRace: a bulk delete in slot r1 against a delete in slot r2,     *)
(* interleaved store call by store call, on a store as earlier creates and *)
(* deletes have left it: every id was given out, some rows are gone.       *)
(***************************************************************************)
InitStored ==
    /\ \E owner \in [1..MaxItems -> Users \cup {NULL}] :
          store = [i \in 1..MaxItems |->
                     IF owner[i] = NULL THEN NoRow
                     ELSE Row(i, owner[i], NULL, <<"a">>,
                              Vector(EmbeddingDim, "e1"),
                              MemoryMetadata_defaults, <<>>)]
    /\ next_id = MaxItems + 1
    /\ req = [r \in Slots |-> Idle]

\* the steps of a bulk_delete_memories that runs to its response
BulkDeletes(r) ==
    \/ bulk_delete_memories_begin(r)
    \/ bulk_delete_memories_check(r)
    \/ bulk_delete_memories_admit(r)
    \/ bulk_delete_memories_delete(r)
    \/ Respond(r)

NextBulkRace ==
    \/ BulkDeletes("r1")
    \/ Deletes("r2")

SpecBulkRace == InitStored /\ [][NextBulkRace]_vars

(***************************************************************************)
(* SpecWrite: the handlers that write text and tags, one request after the *)
(* other, with bodies as clients post them.                                *)
(***************************************************************************)
NextWrite ==
    \/ create_memory_item_post("r1")
    \/ create_memory_item_insert("r1")
    \/ update_memory_item_put("r1")
    \/ update_memory_item_verify("r1")
    \/ update_memory_item_update("r1")
    \/ save_memory_begin("r1")
    \/ save_memory_insert("r1")
    \/ Respond("r1")

SpecWrite == Init /\ [][NextWrite]_vars

(***************************************************************************)
(* SpecFields: create and update, one request after the other, with bodies *)
(* that differ in embedding, metadata and tags and updates that supply any *)
(* subset of the fields, on a table that has one id left to give out: the  *)
(* rows of the ids before it were deleted.                                 *)
(***************************************************************************)
InitLastId ==
    /\ store = [i \in 1..MaxItems |-> NoRow]
    /\ next_id = MaxItems
    /\ req = [r \in Slots |-> Idle]

NextFields ==
    \/ create_memory_item_fields("r1")
    \/ create_memory_item_insert("r1")
    \/ update_memory_item_fields("r1")
    \/ update_memory_item_verify("r1")
    \/ update_memory_item_update("r1")
    \/ Respond("r1")

SpecFields == InitLastId /\ [][NextFields]_vars

(***************************************************************************)
(* SpecList: creates and list requests, most of them without a query       *)
(* string, one request after the other.                                    *)
(***************************************************************************)
NextList ==
    \/ create_memory_item_begin("r1")
    \/ create_memory_item_insert("r1")
    \/ get_memory_items_any("r1")
    \/ get_memory_items_embed("r1")
    \/ get_memory_items_rpc("r1")
    \/ get_memory_items_scan("r1")
    \/ Respond("r1")

SpecList == Init /\ [][NextList]_vars

(***************************************************************************)
(* SpecLastId: the engine serving every operation, one request after the   *)
(* other, on a table that has one id left to give out.                     *)
(***************************************************************************)
SpecLastId == InitLastId /\ [][Next]_vars

(***************************************************************************)
(* SpecTags: the tag validator of the request models on its own, applied   *)
(* to a list of tags and then to a list it has returned.                   *)
(***************************************************************************)
InitTags ==
    /\ store = [i \in 1..MaxItems |-> NoRow]
    /\ next_id = 1
    /\ \E v \in TagArgs :
          req = [r \in Slots |->
                   IF r = "r1"
                   THEN [Idle EXCEPT !.op = "validate_tags",
                                     !.pc = "validate", !.raw_tags = v]
                   ELSE Idle]

\* CreateMemoryRequest.validate_tags / UpdateMemoryRequest.validate_tags
validate_tags_apply(r) ==
    /\ req[r].pc = "validate"
    /\ \E cleaned \in validate_tags(req[r].raw_tags) :
          req' = [req EXCEPT ![r] =
                    [req[r] EXCEPT !.tags = cleaned, !.pc = "validated"]]
    /\ UNCHANGED <<store, next_id>>

\* the tags of a response are sent back as the tags of a request
validate_tags_resubmit(r) ==
    /\ req[r].pc = "validated"
    /\ req' = [req EXCEPT ![r] =
                  [req[r] EXCEPT !.raw_tags = req[r].tags,
                                 !.tags = <<>>, !.pc = "validate"]]
    /\ UNCHANGED <<store, next_id>>

NextTags == validate_tags_apply("r1") \/ validate_tags_resubmit("r1")

SpecTags == InitTags /\ [][NextTags]_vars

(***************************************************************************)
(* Properties.                                                             *)
(***************************************************************************)
Done(r) == req[r].pc = "done"

Called(r, name) == \E k \in 1..Len(req[r].log) : req[r].log[k] = name

\* C1: a bulk delete one of whose members was absent, owned by another user
\* or failed its lookup when it was checked never reaches the batch delete:
\* it ends forbidden (403), it has issued no delete and removed no row.
C1_BulkDeleteAllOrNothing ==
    \A r \in Slots :
        (req[r].op = "bulk_delete" /\ req[r].unowned # {}) =>
            /\ req[r].pc \in {"gather", "done", "cancelled"}
            /\ ~Called(r, "delete_in")
            /\ req[r].deleted = {}
            /\ Done(r) => req[r].status = HTTP_403_FORBIDDEN

\* a rejected batch of two, one member of which the caller owns and which is
\* still stored
C1_Witness ==
    \E r \in Slots :
        /\ req[r].op = "bulk_delete" /\ Done(r)
        /\ req[r].status = HTTP_403_FORBIDDEN
        /\ Len(req[r].memory_ids) = 2
        /\ req[r].unowned # {}
        /\ \E i \in 1..2 :
              /\ req[r].ownership_checks[i]
              /\ store[req[r].memory_ids[i]].user_id = req[r].caller

\* C2: a step changes or removes a stored row only if it is a step of a
\* request whose resolved caller is the owner of that row.
C2_NoCrossUserMutation ==
    [][\A i \in 1..MaxItems :
          (store[i] # NoRow /\ store'[i] # store[i]) =>
              \E r \in Slots :
                  /\ req'[r] # req[r]
                  /\ req[r].caller = store[i].user_id]_vars

\* the owner has deleted a row for which another user's request was refused
C2_Witness ==
    \E r, o \in Slots :
        /\ req[r].op = "delete" /\ Done(r)
        /\ req[r].status = HTTP_204_NO_CONTENT
        /\ req[o].op \in {"update", "delete"} /\ Done(o)
        /\ req[o].status = HTTP_403_FORBIDDEN
        /\ req[o].memory_id = req[r].memory_id
        /\ req[o].caller # req[r].caller

C4_ReadIsolation ==
    \A r \in Slots :
        (req[r].op = "list" /\ Done(r) /\ req[r].status = HTTP_200_OK) =>
            \A k \in 1..Len(req[r].items) :
                /\ req[r].items[k].user_id = req[r].caller
                /\ req[r].project_id # NULL =>
                      req[r].items[k].project_id = req[r].project_id

\* a similarity response with a project filter, while the store also holds
\* a row of another user
C4_Witness ==
    \E r \in Slots :
        /\ req[r].op = "list" /\ Done(r) /\ req[r].status = HTTP_200_OK
        /\ req[r].similarity = "data"
        /\ req[r].project_id # NULL
        /\ req[r].items # <<>>
        /\ \E i \in Rows : store[i].user_id # req[r].caller

\* the request carries a query: search is given and not blank
HasQuery(q) == q.search # NoneStr /\ Strip(q.search) # <<>>

\* every item of the response matches the query lexically
ItemsMatchQuery(q) ==
    \A k \in 1..Len(q.items) : TextSearch(q.items[k].text, Strip(q.search))

TextRun(q, out) ==
    Scan(Dispatch(ListRequest(q.caller, q.user_id, q.project_id, q.search,
                              q.page, q.page_size, "text")), out)

\* C6: a hybrid search whose embedding call answered and whose similarity
\* call raised ends with the status, items, total_count and has_next of a
\* text search on the same inputs and store.
C6_FallbackEquivalence ==
    \A r \in Slots :
        (/\ req[r].op = "list" /\ Done(r)
         /\ req[r].mode = "hybrid"
         /\ req[r].embedding = "data"
         /\ req[r].similarity = "error") =>
            /\ req[r].scan # "none"
            /\ LET t == TextRun(req[r], req[r].scan)
               IN  /\ req[r].status = t.status
                   /\ req[r].items = t.items
                   /\ req[r].total_count = t.total_count
                   /\ req[r].has_next = t.has_next

\* such a hybrid search that answered one item of two matching ones
C6_Witness ==
    \E r \in Slots :
        /\ req[r].op = "list" /\ Done(r)
        /\ req[r].mode = "hybrid"
        /\ req[r].embedding = "data"
        /\ req[r].similarity = "error"
        /\ req[r].status = HTTP_200_OK
        /\ req[r].items # <<>>
        /\ req[r].has_next

\* C7: the items of a response to a query were returned by the similarity
\* operation or match the query lexically.
C7_QueryResponsesMatchQuery ==
    \A r \in Slots :
        (/\ req[r].op = "list" /\ Done(r)
         /\ req[r].status = HTTP_200_OK
         /\ HasQuery(req[r])) =>
            \/ req[r].similarity = "data"
            \/ ItemsMatchQuery(req[r])

\* C8: a list/search response has has_next = (total_count > (page - 1) *
\* page_size + page_size), echoes page and page_size and carries at most
\* page_size items, on the similarity path and on the scan path.
C8_Pagination ==
    \A r \in Slots :
        (req[r].op = "list" /\ Done(r) /\ req[r].status = HTTP_200_OK) =>
            /\ req[r].has_next =
                  (req[r].total_count >
                      (req[r].page - 1) * req[r].page_size + req[r].page_size)
            /\ req[r].echo_page = req[r].page
            /\ req[r].echo_page_size = req[r].page_size
            /\ Len(req[r].items) <= req[r].page_size

\* the first page of size 1 of two matching rows
C8_Witness ==
    \E r \in Slots :
        /\ req[r].op = "list" /\ Done(r) /\ req[r].status = HTTP_200_OK
        /\ req[r].page = 1 /\ req[r].page_size = 1
        /\ req[r].total_count = 2
        /\ req[r].has_next
        /\ Len(req[r].items) = 1

\* C9: an update with an empty field set ends in a validation failure (400)
\* and has made no store call, the ownership lookup included.
C9_EmptyUpdateNoStoreCall ==
    \A r \in Slots :
        (req[r].op = "update" /\ update_fields(req[r]) = {} /\ Done(r)) =>
            /\ req[r].status = HTTP_400_BAD_REQUEST
            /\ req[r].log = <<>>

\* C10: a bulk delete with an empty list, a list over the limit or a
\* malformed id, and a get, update or delete with a malformed id, end 400
\* before any ownership check and any store read or write.
C10_ValidationBeforeStore ==
    \A r \in Slots :
        LET q == req[r]
            malformed(v) == v \notin 1..MaxItems
        IN  (\/ /\ q.op = "bulk_delete"
                /\ \/ q.memory_ids = <<>>
                   \/ Len(q.memory_ids) > BulkDeleteLimit
                   \/ \E i \in 1..Len(q.memory_ids) :
                         malformed(q.memory_ids[i])
             \/ /\ q.op \in {"get", "update", "delete"}
                /\ malformed(q.memory_id)) =>
                /\ Done(r)
                /\ q.status = HTTP_400_BAD_REQUEST
                /\ q.log = <<>>
                /\ q.pending = {}
                /\ q.deleted = {}

\* a refused batch whose first member is a row of the caller and whose
\* second member is malformed
C10_Witness ==
    \E r \in Slots :
        /\ req[r].op = "bulk_delete" /\ Done(r)
        /\ req[r].status = HTTP_400_BAD_REQUEST
        /\ Len(req[r].memory_ids) = 2
        /\ req[r].memory_ids[1] \in Rows
        /\ store[req[r].memory_ids[1]].user_id = req[r].caller
        /\ req[r].memory_ids[2] \notin 1..MaxItems

\* C11: the id named by a bulk delete rejected at admission is the member of
\* lowest index among those that failed their lookup, whatever the order in
\* which the lookups completed.
C11_RejectionNamesFirstFailing ==
    \A r \in Slots :
        (/\ req[r].op = "bulk_delete" /\ Done(r)
         /\ req[r].status = HTTP_403_FORBIDDEN) =>
            /\ req[r].unowned # {}
            /\ \E i \in req[r].unowned :
                  /\ \A j \in req[r].unowned : i <= j
                  /\ req[r].denied = req[r].memory_ids[i]

\* a rejected batch of two different ids, both failing, the lookup of the
\* second having completed before that of the first
C11_Witness ==
    \E r \in Slots :
        /\ req[r].op = "bulk_delete" /\ Done(r)
        /\ req[r].status = HTTP_403_FORBIDDEN
        /\ req[r].unowned = {1, 2}
        /\ req[r].failed_first = 2
        /\ req[r].memory_ids[1] # req[r].memory_ids[2]
        /\ req[r].denied = req[r].memory_ids[1]

\* what the client of request q receives
Response(q) == [status |-> q.status, detail |-> q.detail, items |-> q.items]

\* C12: an update or a delete naming an id that no row has and one naming
\* an id whose row is owned by another user receive the same response:
\* status 403 with one and the same detail text and no item.
C12_OwnershipFailureIndistinguishable ==
    \A r \in Slots :
        (/\ req[r].op \in {"update", "delete"}
         /\ req[r].seen \in {"absent", "other"}) =>
            /\ Done(r)
            /\ Response(req[r]) =
                  [status |-> HTTP_403_FORBIDDEN,
                   detail |->
                     "Access denied: memory item not found or access denied",
                   items |-> <<>>]

\* an update refused for a row that exists and is owned by another user
C12_Witness ==
    \E r \in Slots :
        /\ req[r].op = "update" /\ Done(r)
        /\ req[r].seen = "other"
        /\ req[r].status = HTTP_403_FORBIDDEN
        /\ req[r].text # NoneStr
        /\ store[req[r].memory_id] # NoRow
        /\ store[req[r].memory_id].user_id # req[r].caller

C14_DeleteRace ==
    /\ \A r \in Slots :
          (req[r].op = "delete" /\ Done(r)) =>
              /\ req[r].status = HTTP_204_NO_CONTENT <=>
                    req[r].deleted = {req[r].memory_id}
              /\ (/\ req[r].seen = "own"
                  /\ req[r].deleted = {}
                  /\ req[r].status # HTTP_500_INTERNAL_SERVER_ERROR) =>
                      req[r].status = HTTP_404_NOT_FOUND
    /\ \A r, o \in Slots :
          (/\ r # o
           /\ req[r].op = "delete" /\ Done(r)
           /\ req[o].op = "delete" /\ Done(o)
           /\ req[r].memory_id = req[o].memory_id
           /\ req[r].status = HTTP_204_NO_CONTENT) =>
              /\ req[o].status \in {HTTP_403_FORBIDDEN, HTTP_404_NOT_FOUND,
                                     HTTP_500_INTERNAL_SERVER_ERROR}
              /\ req[o].deleted = {}
    /\ \A r, o \in Slots :
          (/\ r # o
           /\ req[r].op = "delete" /\ Done(r) /\ req[r].seen = "own"
           /\ req[o].op = "delete" /\ Done(o) /\ req[o].seen = "own"
           /\ req[r].memory_id = req[o].memory_id
           /\ req[r].status # HTTP_500_INTERNAL_SERVER_ERROR
           /\ req[o].status # HTTP_500_INTERNAL_SERVER_ERROR) =>
              {req[r].status, req[o].status} =
                  {HTTP_204_NO_CONTENT, HTTP_404_NOT_FOUND}

\* two deletes of one item by its owner that both passed the ownership
\* check: one reported 204, the other 404
C14_Witness ==
    \E r, o \in Slots :
        /\ r # o
        /\ req[r].op = "delete" /\ Done(r)
        /\ req[o].op = "delete" /\ Done(o)
        /\ req[r].memory_id = req[o].memory_id
        /\ req[r].caller = req[o].caller
        /\ req[r].seen = "own" /\ req[o].seen = "own"
        /\ req[r].status = HTTP_204_NO_CONTENT
        /\ req[o].status = HTTP_404_NOT_FOUND
        /\ store[req[r].memory_id] = NoRow

\* C15: the store update of an update request whose target has been removed
\* since its ownership check passed changes no row and creates none, and
\* the request ends 404 without an item (500 when the store call raised).
C15_UpdateAfterRacedDelete ==
    [][\A r \in Slots :
          (/\ req[r].op = "update" /\ req[r].pc = "update"
           /\ req'[r].pc = "done"
           /\ store[req[r].memory_id] = NoRow) =>
              /\ store' = store
              /\ req'[r].items = <<>>
              /\ req'[r].status \in {HTTP_404_NOT_FOUND,
                                      HTTP_500_INTERNAL_SERVER_ERROR}
              /\ req'[r].status = HTTP_500_INTERNAL_SERVER_ERROR =>
                    req'[r].detail = "Failed to update memory item"]_vars

\* an update that passed its ownership check and reported 404, the row
\* having been removed by the delete in the other slot
C15_Witness ==
    \E r, o \in Slots :
        /\ req[r].op = "update" /\ Done(r)
        /\ req[r].seen = "own"
        /\ req[r].status = HTTP_404_NOT_FOUND
        /\ req[o].op = "delete" /\ Done(o)
        /\ req[o].status = HTTP_204_NO_CONTENT
        /\ req[o].memory_id = req[r].memory_id
        /\ store[req[r].memory_id] = NoRow

\* the rows that the step removes from the store
Removed == {i \in 1..MaxItems : store[i] # NoRow /\ store'[i] = NoRow}

\* C16: a bulk delete all of whose members passed their ownership check
\* goes on to the batch delete; the batch delete is the only one of the
\* request and ends 200 with requested_count = the length of the list and
\* deleted_count = the number of rows it removed, however few these are;
\* it ends in an error only when the store call raised, with no row gone.
C16_BulkDeleteBestEffort ==
    [][\A r \in Slots :
          LET q == req[r]
              p == req'[r]
              ids == {q.memory_ids[i] : i \in 1..Len(q.memory_ids)}
          IN  /\ (/\ q.op = "bulk_delete" /\ q.pc = "gather"
                  /\ p.pc \notin {"gather", "cancelled"}) =>
                      (p.pc = "delete_in" <=>
                          \A i \in 1..Len(q.memory_ids) :
                              q.ownership_checks[i])
              /\ (q.pc = "delete_in" /\ p # q) =>
                      /\ p.pc = "done"
                      /\ ~Called(r, "delete_in")
                      /\ \/ /\ p.status = HTTP_200_OK
                            /\ p.requested_count = Len(q.memory_ids)
                            /\ p.deleted_count = Cardinality(Removed)
                            /\ Removed = ids \cap Rows
                         \/ /\ p.status = HTTP_500_INTERNAL_SERVER_ERROR
                            /\ Removed = {}]_vars

\* a bulk delete of two rows of the caller that succeeded with a
\* deleted_count of 1, the delete in the other slot having removed one of
\* the two after it was checked
C16_Witness ==
    \E r, o \in Slots :
        /\ req[r].op = "bulk_delete" /\ Done(r)
        /\ req[r].status = HTTP_200_OK
        /\ req[r].requested_count = 2
        /\ req[r].deleted_count = 1
        /\ req[r].memory_ids[1] # req[r].memory_ids[2]
        /\ req[o].op = "delete" /\ Done(o)
        /\ req[o].status = HTTP_204_NO_CONTENT
        /\ req[o].memory_id = req[r].memory_ids[2]

\* C17: a bulk delete cancelled while its ownership checks are gathered has
\* issued no delete and removed no row, whatever its checks had answered.
C17_CancelledBulkDeleteDeletesNothing ==
    \A r \in Slots :
        req[r].pc = "cancelled" =>
            /\ req[r].op = "bulk_delete"
            /\ ~Called(r, "delete_in")
            /\ req[r].deleted = {}
            /\ req[r].status = 0

\* a bulk delete of two rows of the caller, cancelled when one lookup had
\* passed and the other was in flight; both rows are still stored
C17_Witness ==
    \E r \in Slots :
        /\ req[r].pc = "cancelled"
        /\ Len(req[r].memory_ids) = 2
        /\ req[r].memory_ids[1] # req[r].memory_ids[2]
        /\ req[r].pending = {2}
        /\ req[r].ownership_checks[1]
        /\ \A i \in 1..2 :
              /\ store[req[r].memory_ids[i]] # NoRow
              /\ store[req[r].memory_ids[i]].user_id = req[r].caller

\* a tag is canonical: not empty, no blank at either end, no upper case
CanonicalTag(tag) == tag # <<>> /\ Strip(tag) = tag /\ Lower(tag) = tag

\* a list of canonical tags, each of them once
CanonicalTags(tags) ==
    /\ \A i \in 1..Len(tags) : CanonicalTag(tags[i])
    /\ \A i, j \in 1..Len(tags) : tags[i] = tags[j] => i = j

\* C19: every list the tag validator returns holds canonical tags, each
\* once, namely the cleaned forms of the non-blank tags given, and the
\* validator applied to a list it returned returns the same set of tags.
C19_TagNormalizationIdempotent ==
    \A r \in Slots :
        req[r].pc = "validated" =>
            /\ CanonicalTags(req[r].tags)
            /\ Range(req[r].tags) =
                  {Lower(Strip(t)) : t \in {u \in Range(req[r].raw_tags) :
                                               Strip(u) # <<>>}}
            /\ \A again \in validate_tags(req[r].tags) :
                  Range(again) = Range(req[r].tags)

\* an upper-case tag, a padded tag of the same cleaned form and a blank tag
\* have become the one tag "a"
C19_Witness ==
    \E r \in Slots :
        /\ req[r].pc = "validated"
        /\ req[r].raw_tags = << <<"A">>, <<" ", "a">>, <<" ">> >>
        /\ req[r].tags = << <<"a">> >>

\* C18: the tags of every stored item are canonical (trimmed, lower case,
\* not empty) and occur once each, whichever handler wrote the item.
C18_StoredTagsCanonical ==
    \A i \in Rows : CanonicalTags(store[i].tags)

\* a text is canonical: not empty, no blank at either end, within the length
CanonicalText(text) ==
    /\ Len(text) >= 1 /\ Len(text) <= TextMaxLength
    /\ Strip(text) = text

\* C20: the text that a create or an update has written is not empty, has
\* no blank at either end and has a length of 1 to 10,000; a create or an
\* update given a text that is empty once trimmed is rejected and has made
\* no store write.
C20_StoredTextCanonical ==
    \A r \in Slots :
        req[r].op \in {"create", "update"} =>
            /\ (Done(r) /\ req[r].status \in {HTTP_200_OK, HTTP_201_CREATED})
                  => CanonicalText(req[r].items[1].text)
            /\ (req[r].raw_text # NoneStr /\ Strip(req[r].raw_text) = <<>>)
                  => /\ ~Called(r, "insert") /\ ~Called(r, "update")
                     /\ Done(r) =>
                           req[r].status \notin {HTTP_200_OK,
                                                 HTTP_201_CREATED}

(***************************************************************************)
(* Field rules of create and update (SpecFields).                          *)
(***************************************************************************)
\* C21: a create whose embedding does not have exactly 1536 entries and an
\* update that supplies an embedding without exactly 1536 entries are
\* rejected without an insert or an update of the store, and every stored
\* embedding that create or update wrote has exactly 1536 entries.
C21_EmbeddingLength ==
    /\ \A i \in Rows : store[i].embedding.len = EmbeddingDim
    /\ \A r \in Slots :
          (/\ req[r].op \in {"create", "update"}
           /\ req[r].op = "update" => req[r].emb # NoneEmbedding
           /\ req[r].emb.len # EmbeddingDim)
             => /\ ~Called(r, "insert") /\ ~Called(r, "update")
                /\ Done(r) => req[r].status = HTTP_422_UNPROCESSABLE_ENTITY

\* an update of a stored row that supplied 1537 entries was rejected
C21_Witness ==
    \E r \in Slots :
        /\ Done(r) /\ req[r].op = "update"
        /\ req[r].emb.len = EmbeddingDim + 1
        /\ req[r].status = HTTP_422_UNPROCESSABLE_ENTITY
        /\ req[r].memory_id \in Rows
        /\ store[req[r].memory_id].embedding.len = EmbeddingDim
        /\ ~Called(r, "update")

\* C22: a successful update leaves the id, the owner, the project and the
\* creation time of the row and every field that the request did not
\* supply as they were, and writes no other row; no step of any operation
\* changes the owner of a row.
C22_UpdateFrame ==
    [][/\ \A i \in 1..MaxItems :
             (store[i] # NoRow /\ store'[i] # NoRow)
                => store'[i].user_id = store[i].user_id
       /\ \A r \in Slots :
             (/\ req[r].op = "update" /\ req[r].pc = "update"
              /\ req'[r].pc = "done" /\ req'[r].status = HTTP_200_OK)
                => LET q == req[r]
                       old == store[q.memory_id]
                       new == store'[q.memory_id]
                   IN  /\ new.id = old.id
                       /\ new.user_id = old.user_id
                       /\ new.project_id = old.project_id
                       /\ new.created_at = old.created_at
                       /\ q.text = NoneStr => new.text = old.text
                       /\ q.emb = NoneEmbedding
                             => new.embedding = old.embedding
                       /\ q.metadata = NoneMeta
                             => new.metadata = old.metadata
                       /\ q.tags = NoneTags => new.tags = old.tags
                       /\ \A j \in 1..MaxItems \ {q.memory_id} :
                             store'[j] = store[j]
      ]_vars

\* an update that supplied a text alone has changed the text of the row and
\* nothing else
C22_Witness ==
    \E r \in Slots :
        /\ Done(r) /\ req[r].op = "update"
        /\ req[r].status = HTTP_200_OK
        /\ req[r].text # NoneStr /\ req[r].emb = NoneEmbedding
        /\ req[r].metadata = NoneMeta /\ req[r].tags = NoneTags
        /\ req[r].before.text # req[r].text
        /\ store[req[r].memory_id] =
              [req[r].before EXCEPT !.text = req[r].text]

\* C23: a create or an update that supplies more than 20 tags is rejected
\* without an insert or an update of the store, whatever the number of tags
\* that trimming and de-duplication would leave, and no row that create or
\* update wrote has more than 20 tags.
C23_TagCeilingBeforeNormalization ==
    /\ \A i \in Rows : Len(store[i].tags) <= TagsMaxItems
    /\ \A r \in Slots :
          (/\ req[r].op \in {"create", "update"}
           /\ req[r].raw_tags # NoneTags
           /\ Len(req[r].raw_tags) > TagsMaxItems)
             => /\ ~Called(r, "insert") /\ ~Called(r, "update")
                /\ Done(r) => req[r].status = HTTP_422_UNPROCESSABLE_ENTITY

\* an update of a stored row that supplied 21 spellings of one tag was
\* rejected
C23_Witness ==
    \E r \in Slots :
        /\ Done(r) /\ req[r].op = "update"
        /\ Len(req[r].raw_tags) = TagsMaxItems + 1
        /\ Cardinality(Range(cleaned_tags(req[r].raw_tags))) = 1
        /\ req[r].status = HTTP_422_UNPROCESSABLE_ENTITY
        /\ req[r].memory_id \in Rows

\* the map m completed with the defaults of the declared fields
Completed(m) ==
    [k \in {"source", "type", "importance", "language", "framework"}
              \cup DOMAIN m |->
        IF k \in DOMAIN m THEN m[k]
        ELSE IF k = "type" THEN "note"
        ELSE IF k = "importance" THEN 1
        ELSE NULL]

\* C30: a successful update that supplies metadata leaves the row with the
\* supplied map completed with the defaults (type note, importance 1, source,
\* language and framework null) and with no other key of the map the row
\* had; a successful update that omits metadata leaves the map as it was.
C30_MetadataReplacedWholesale ==
    [][\A r \in Slots :
          (/\ req[r].op = "update" /\ req[r].pc = "update"
           /\ req'[r].pc = "done" /\ req'[r].status = HTTP_200_OK)
             => LET q == req[r]
                    old == store[q.memory_id].metadata
                    new == store'[q.memory_id].metadata
                IN  IF q.metadata = NoneMeta THEN new = old
                    ELSE /\ new = Completed(q.metadata)
                         /\ \A k \in DOMAIN old \ DOMAIN Completed(q.metadata) :
                               k \notin DOMAIN new
      ]_vars

\* an update that supplied a type alone was applied to a row whose map had
\* a key of its own, and the key is gone
C30_Witness ==
    \E r \in Slots :
        /\ Done(r) /\ req[r].op = "update"
        /\ req[r].status = HTTP_200_OK
        /\ req[r].metadata = [type |-> "code"]
        /\ "origin" \in DOMAIN req[r].before.metadata
        /\ "origin" \notin DOMAIN store[req[r].memory_id].metadata
        /\ store[req[r].memory_id].metadata.importance = 1

(***************************************************************************)
(* List without a query (SpecList).                                        *)
(***************************************************************************)
\* the rows of user_id, of project_id when one is given, newest first
OwnedNewestFirst(user_id, project_id) ==
    OrderByCreatedDesc({i \in Rows :
                          /\ store[i].user_id = user_id
                          /\ (project_id # NULL =>
                                store[i].project_id = project_id)})

\* C24: a list request whose search is absent, empty or blank, in any mode,
\* never calls the embedding service or the similarity operation and has no
\* lexical filter; its response is the window [offset, offset + page_size)
\* of the rows of the owner (and project), newest first, and total_count is
\* the number of these rows.
C24_NoQueryPlainScan ==
    \A r \in Slots :
        (/\ req[r].op = "list"
         /\ (req[r].search = NoneStr \/ Strip(req[r].search) = <<>>)) =>
            LET q == req[r]
                rows == OwnedNewestFirst(q.user_id, q.project_id)
                offset == (q.page - 1) * q.page_size
            IN  /\ ~Called(r, "embeddings")
                /\ ~Called(r, "search_memories")
                /\ q.pc \notin {"embed", "rpc"}
                /\ ~q.lexical
                /\ (Done(r) /\ q.status = HTTP_200_OK) =>
                      /\ q.log = <<"scan">>
                      /\ q.total_count = Len(rows)
                      /\ Len(q.items) =
                            Min(q.page_size,
                                IF Len(rows) > offset
                                THEN Len(rows) - offset ELSE 0)
                      /\ \A k \in 1..Len(q.items) :
                            /\ q.items[k].id = rows[offset + k].id
                            /\ q.items[k].text = rows[offset + k].text
                      /\ \A k \in 1..(Len(q.items) - 1) :
                            q.items[k].created_at > q.items[k + 1].created_at

\* a hybrid request with a blank search has returned the second page of the
\* caller's rows
C24_Witness ==
    \E r \in Slots :
        /\ req[r].op = "list" /\ Done(r) /\ req[r].status = HTTP_200_OK
        /\ req[r].search = <<" ">> /\ req[r].mode = "hybrid"
        /\ req[r].page = 2 /\ req[r].page_size = 1
        /\ req[r].total_count = 2
        /\ Len(req[r].items) = 1
        /\ req[r].log = <<"scan">>

(***************************************************************************)
(* The similarity field.                                                   *)
(***************************************************************************)
\* the response of the request came from the similarity path
FromSimilarityPath(q) == q.op = "list" /\ q.similarity = "data"

\* C25: every item of a response that did not come from the similarity path
\* of a search (a plain or text scan, a downgraded vector or hybrid request
\* among them, a get, a create, an update) has no similarity value, and
\* similarity is no column of an insert or update payload nor of a row.
C25_SimilarityOnlyFromSimilarityPath ==
    /\ \A r \in Slots :
          /\ (/\ req[r].op \in {"list", "get", "create", "update"}
              /\ ~FromSimilarityPath(req[r]))
                => \A k \in 1..Len(req[r].items) :
                      req[r].items[k].similarity = NULL
          /\ "similarity" \notin req[r].written
    /\ \A i \in Rows : "similarity" \notin DOMAIN store[i]

\* a hybrid request whose similarity call raised has returned an item from
\* the text scan
C25_Witness ==
    \E r \in Slots :
        /\ req[r].op = "list" /\ Done(r) /\ req[r].status = HTTP_200_OK
        /\ req[r].mode = "hybrid" /\ req[r].similarity = "error"
        /\ req[r].items # <<>>
        /\ req[r].items[1].similarity = NULL

(***************************************************************************)
(* No retry.                                                               *)
(***************************************************************************)
\* the number of calls of the collaborator operation name that q has made
Calls(q, name) == Cardinality({k \in 1..Len(q.log) : q.log[k] = name})

\* the place of a collaborator call in the order of a search
SearchRank(name) ==
    IF name = "embeddings" THEN 1
    ELSE IF name = "search_memories" THEN 2
    ELSE 3

\* a store call of the request raised: a call of the handler, or the
\* ownership lookup of an update or a delete
StoreFailed(q) == q.raised # "" \/ q.seen = "error"

\* C26: a request calls every collaborator operation at most once (the
\* ownership lookup of a bulk delete once for each member); a search makes
\* at most one embedding call, one similarity call and one scan, in that
\* order; a create, get, update, delete, bulk delete or statistics request
\* one of whose store calls raised ends in an internal error (500), and the
\* call that raised is the last call it made.
C26_NoRetry ==
    \A r \in Slots :
        LET q == req[r]
        IN  /\ \A name \in Range(q.log) :
                  Calls(q, name) <=
                     IF q.op = "bulk_delete" /\ name = "select_owner"
                     THEN Len(q.memory_ids) ELSE 1
            /\ q.op = "list" =>
                  /\ Range(q.log) \subseteq
                        {"embeddings", "search_memories", "scan"}
                  /\ \A k, l \in 1..Len(q.log) :
                        k < l => SearchRank(q.log[k]) < SearchRank(q.log[l])
            /\ (/\ q.op \in {"create", "get", "update", "delete",
                              "bulk_delete", "stats"}
                /\ StoreFailed(q))
                  => /\ q.pc = "done"
                     /\ q.status = HTTP_500_INTERNAL_SERVER_ERROR
                     /\ q.log[Len(q.log)] \in {q.raised, "select_owner"}

\* C26, amended: as C26, but the store calls whose failure ends in an
\* internal error are the calls of the handler itself; a failure of the
\* ownership lookup of an update or a delete is answered forbidden (403),
\* and the lookup is the only call the request has made.
C26_NoRetryLookupForbidden ==
    \A r \in Slots :
        LET q == req[r]
        IN  /\ \A name \in Range(q.log) :
                  Calls(q, name) <=
                     IF q.op = "bulk_delete" /\ name = "select_owner"
                     THEN Len(q.memory_ids) ELSE 1
            /\ q.op = "list" =>
                  /\ Range(q.log) \subseteq
                        {"embeddings", "search_memories", "scan"}
                  /\ \A k, l \in 1..Len(q.log) :
                        k < l => SearchRank(q.log[k]) < SearchRank(q.log[l])
            /\ (/\ q.op \in {"create", "get", "update", "delete",
                              "bulk_delete", "stats"}
                /\ q.raised # "")
                  => /\ q.pc = "done"
                     /\ q.status = HTTP_500_INTERNAL_SERVER_ERROR
                     /\ q.log[Len(q.log)] = q.raised
            /\ (q.op \in {"update", "delete"} /\ q.seen = "error")
                  => /\ q.pc = "done"
                     /\ q.status = HTTP_403_FORBIDDEN
                     /\ q.log = <<"select_owner">>

\* the store update of an update request raised after its ownership lookup
\* had passed: one lookup, one update, internal error
C26_Witness ==
    \E r \in Slots :
        /\ req[r].op = "update" /\ Done(r)
        /\ req[r].raised = "update"
        /\ req[r].seen = "own"
        /\ req[r].status = HTTP_500_INTERNAL_SERVER_ERROR
        /\ req[r].log = <<"select_owner", "update">>

(***************************************************************************)
(* Statistics.                                                             *)
(***************************************************************************)
\* C27: a statistics request for the caller's own user id whose aggregation
\* returned no result ends in success (200) with a response that is not
\* null: total 0, empty maps by type and by project, an empty list of
\* recent activity.
C27_EmptyStatsNormalized ==
    \A r \in Slots :
        (/\ req[r].op = "stats" /\ Done(r)
         /\ req[r].caller = req[r].user_id
         /\ req[r].aggregation = "nodata") =>
            /\ req[r].status = HTTP_200_OK
            /\ req[r].stats # NoStats
            /\ req[r].stats.total_memories = 0
            /\ req[r].stats.memories_by_type = EmptyDict
            /\ req[r].stats.memories_by_project = EmptyDict
            /\ req[r].stats.recent_activity = <<>>

\* the aggregation returned no result for a caller who has a row
C27_Witness ==
    \E r \in Slots :
        /\ req[r].op = "stats" /\ Done(r)
        /\ req[r].aggregation = "nodata"
        /\ req[r].status = HTTP_200_OK
        /\ \E i \in Rows : store[i].user_id = req[r].caller

(***************************************************************************)
(* The similarity path and the pages.                                      *)
(***************************************************************************)
\* C28: a response of the similarity path reports a total_count of at most
\* page_size and has_next false, and for a page after the first its list
\* of items is empty, however many rows pass the filters.
C28_SimilarityPathOnePage ==
    \A r \in Slots :
        (FromSimilarityPath(req[r]) /\ Done(r)) =>
            /\ req[r].status = HTTP_200_OK
            /\ req[r].total_count <= req[r].page_size
            /\ ~req[r].has_next
            /\ Len(req[r].items) <= req[r].page_size
            /\ req[r].page >= 2 => req[r].items = <<>>

\* the second page of size one was asked for while two rows of the caller
\* pass the filters: one match is counted and no item is returned
C28_Witness ==
    \E r \in Slots :
        /\ FromSimilarityPath(req[r]) /\ Done(r)
        /\ req[r].page = 2 /\ req[r].page_size = 1
        /\ req[r].project_id = NULL
        /\ Cardinality({i \in Rows : store[i].user_id = req[r].user_id}) = 2
        /\ req[r].total_count = 1
        /\ req[r].items = <<>>
        /\ ~req[r].has_next

(***************************************************************************)
(* The counts of a bulk delete.                                            *)
(***************************************************************************)
\* C29: an admitted bulk delete reports deleted_count <= the number of
\* distinct ids of its list <= requested_count, which is the length of the
\* list, and deleted_count is the number of rows it removed: a row named
\* twice is removed and counted once.
C29_BulkDeleteCounts ==
    \A r \in Slots :
        (/\ req[r].op = "bulk_delete" /\ Done(r)
         /\ req[r].status = HTTP_200_OK) =>
            LET q == req[r]
                distinct == Cardinality(Range(q.memory_ids))
            IN  /\ q.deleted_count <= distinct
                /\ distinct <= q.requested_count
                /\ q.requested_count = Len(q.memory_ids)
                /\ q.deleted_count = Cardinality(q.deleted)
                /\ q.deleted \subseteq Range(q.memory_ids)

\* a list that names one row of the caller twice was admitted: one row
\* removed, two requested, and no store call raised
C29_Witness ==
    \E r \in Slots :
        /\ req[r].op = "bulk_delete" /\ Done(r)
        /\ req[r].status = HTTP_200_OK
        /\ Len(req[r].memory_ids) = 2
        /\ req[r].memory_ids[1] = req[r].memory_ids[2]
        /\ req[r].unowned = {}
        /\ req[r].deleted_count = 1
        /\ req[r].requested_count = 2
        /\ req[r].raised = ""
====
